---- MODULE Spec2Model ----
(***************************************************************************)
(* Redirector: the orchestrator (core.py), its load balancer worker        *)
(* threads (loadbalancer.py), the selection strategies (strategies.py),    *)
(* the command line entry point with its signal handlers (cli.py) and the  *)
(* HostsManager the orchestrator drives.                                   *)
(***************************************************************************)
EXTENDS Integers, Sequences, FiniteSets, TLC

(***************************************************************************)
(* Bounds of the model.                                                    *)
(***************************************************************************)
\* How many times the environment may change the health of a backend.
MaxFlips == 2

\* The longest pool of backends a strategy is built from.
MaxPool == 3

\* How many times next_host is called on one strategy.
MaxCalls == 6

\* How many mutations one HostsManager performs on a hosts file.
MaxOps == 3

(***************************************************************************)
(* Configuration documents.                                                *)
(***************************************************************************)
Main == "main"

Backends == {"b1", "b2", "b3"}

\* socket.gethostbyname as upsert_entry uses it: a backend name to its address.
Resolve(b) ==
    CASE b = "b1" -> "10.0.0.1"
      [] b = "b2" -> "10.0.0.2"
      [] OTHER    -> "10.0.0.3"

\* Validated load balancer documents (config.py, _LOADBALANCER_SCHEMA).
SvcA ==
    [name |-> "svc-a", local_host |-> "app.local", backend_hosts |-> <<"b1", "b2">>,
     strategy |-> "sequential", healthcheck |-> "tcp", period |-> 5, valid |-> TRUE]
SvcB ==
    [name |-> "svc-b", local_host |-> "web.local", backend_hosts |-> <<"b2", "b3">>,
     strategy |-> "random", healthcheck |-> "http", period |-> 1, valid |-> TRUE]
\* A second service publishing under the local_host of svc-a.
SvcC ==
    [name |-> "svc-c", local_host |-> "app.local", backend_hosts |-> <<"b3">>,
     strategy |-> "random", healthcheck |-> "tcp", period |-> 0, valid |-> TRUE]
\* A second document carrying the name of svc-a.
SvcA2 ==
    [name |-> "svc-a", local_host |-> "web.local", backend_hosts |-> <<"b3">>,
     strategy |-> "sequential", healthcheck |-> "tcp", period |-> 5, valid |-> TRUE]
\* A document the schema validation rejects (ConfigError).
SvcBad ==
    [name |-> "svc-b", local_host |-> "web.local", backend_hosts |-> <<"b2">>,
     strategy |-> "random", healthcheck |-> "http", period |-> 1, valid |-> FALSE]

\* A service of its own local_host and a pool of one.
SvcD ==
    [name |-> "svc-d", local_host |-> "db.local", backend_hosts |-> <<"b3">>,
     strategy |-> "sequential", healthcheck |-> "tcp", period |-> 1, valid |-> TRUE]

Names == {"svc-a", "svc-b", "svc-c", "svc-d"}

\* Directories of load balancer documents, in the order os.listdir yields them:
\* of one service, of two, and those initialise() refuses.
OneService == { <<SvcA>>, <<SvcB>> }
TwoServices == { <<SvcA, SvcC>>, <<SvcD, SvcA>> }
Refused == { <<>>, <<SvcA, SvcA2>>, <<SvcB, SvcA, SvcA2>>, <<SvcA, SvcBad>> }

\* The core documents: one the validation rejects (ConfigError), and the
\* settings of persist_hosts_block and pid_file (set or None).
BadCore == [ok |-> FALSE, persist_hosts_block |-> TRUE, pid_file |-> FALSE]
GoodCores ==
    { [ok |-> TRUE, persist_hosts_block |-> TRUE,  pid_file |-> TRUE],
      [ok |-> TRUE, persist_hosts_block |-> FALSE, pid_file |-> TRUE],
      [ok |-> TRUE, persist_hosts_block |-> FALSE, pid_file |-> FALSE] }

EmptyMap == [h \in {} |-> ""]

\* The hosts files the daemon may find at start-up: the markers present and the
\* entries of the block.
FileNoBlock == [markers |-> "none", block |-> EmptyMap]
FileWithBlock ==
    [markers |-> "both",
     block |-> [h \in {"app.local", "old.local"} |->
                  IF h = "app.local" THEN "10.0.0.3" ELSE "10.0.0.9"]]
CorruptFiles ==
    { [markers |-> "begin_only", block |-> EmptyMap],
      [markers |-> "end_only", block |-> EmptyMap],
      [markers |-> "end_before_begin", block |-> EmptyMap] }

\* The deployments the daemon is started in.
Deploy(dirs, cores, files) ==
    { [lb_configs |-> d, core_config |-> c, hosts_file |-> f] :
        d \in dirs, c \in cores, f \in files }

Deployments ==
    Deploy(OneService, GoodCores, {FileNoBlock, FileWithBlock})
    \cup Deploy(TwoServices, {c \in GoodCores : c.pid_file}, {FileWithBlock})
    \cup Deploy(Refused, GoodCores, {FileNoBlock, FileWithBlock})
    \cup Deploy(OneService, GoodCores, CorruptFiles)
    \cup Deploy(OneService, {BadCore}, {FileNoBlock})

VARIABLES
    \* ---- environment and configuration
    lb_configs,       \* what ConfigLoader.load_lb_configs yields
    core_config,      \* [ok, persist_hosts_block, pid_file]
    health,           \* the backends a probe finds alive
    flips,            \* health changes so far
    \* ---- Redirector (core.py) and main (cli.py)
    main_pc,          \* where the main thread is
    exit_code,        \* what main returned (-1: not yet)
    run_flag,         \* Redirector._run
    load_balancers,   \* Redirector._load_balancers: names in insertion order
    expected_hostnames,
    cfg_i,            \* position of the for loops of the main thread
    queue,            \* Redirector._queue
    event,            \* the pair the consumer loop holds
    pid_file,         \* "absent" | "written" | "removed"
    \* ---- HostsManager
    entries,          \* HostsManager._entries
    hosts_file,       \* the hosts file: markers and block entries
    \* ---- LoadBalancer threads
    lb,               \* per name: the thread and the locals of run()
    \* ---- history
    hm_active,        \* the threads executing a HostsManager operation
    hist,             \* what happened so far (see HistInit)
    \* ---- objects exercised on their own
    strat,            \* a strategy object and what next_host returned so far
    probe,            \* a health check, what the network answers and what is_alive did
    hf                \* a HostsManager, its hosts file and the rewrite under way

vars ==
    << lb_configs, core_config, health, flips, main_pc, exit_code, run_flag,
       load_balancers, expected_hostnames, cfg_i, queue, event, pid_file,
       entries, hosts_file, lb, hm_active, hist, strat, probe, hf >>

cfg_vars == << lb_configs, core_config >>
unit_vars == << strat, probe, hf >>
env_vars == << health, flips >>
hm_vars == << entries, hosts_file, hm_active >>
main_vars ==
    << main_pc, exit_code, run_flag, load_balancers, expected_hostnames, cfg_i,
       event, pid_file >>

(***************************************************************************)
(* strategies.py                                                           *)
(***************************************************************************)
\* Line 61 as random.randint(0, len(self._hosts)): one past the last index.
InitialIndexes_inclusive(strategy, hosts) ==
    IF strategy = "sequential" THEN {0} ELSE 0 .. Len(hosts)

\* SequentialStrategy.__init__ / RandomStrategy.__init__: the first index.
InitialIndexes(strategy, hosts) ==
    IF strategy = "sequential" THEN {0} ELSE 0 .. (Len(hosts) - 1)

\* Line 47 without the increment.
SequentialNextIndexes_stuck(idx, hosts) == { idx % Len(hosts) }

\* SequentialStrategy.next_host: the indexes _next_index may hold afterwards.
SequentialNextIndexes(idx, hosts) == { (idx + 1) % Len(hosts) }

\* Lines 73-77 without the loop that rejects the current index.
RandomNextIndexes_any(idx, hosts) == 0 .. (Len(hosts) - 1)

\* RandomStrategy.next_host: the indexes _next_index may hold afterwards.
RandomNextIndexes(idx, hosts) ==
    IF Len(hosts) > 1 THEN (0 .. (Len(hosts) - 1)) \ {idx} ELSE {idx}

NextIndexes(strategy, idx, hosts) ==
    IF strategy = "sequential"
    THEN SequentialNextIndexes(idx, hosts)
    ELSE RandomNextIndexes(idx, hosts)

\* next_host(): the host at _next_index (Python indexes from 0).
HostAt(idx, hosts) == hosts[idx + 1]

(***************************************************************************)
(* healthchecks: is_alive(host).  "alive" and "dead" are the two results   *)
(* (True, "OK") and (False, reason); "raise" is an exception leaving       *)
(* is_alive.                                                               *)
(***************************************************************************)
\* TcpHealthCheck.is_alive: every failure of the connect is an OSError, caught.
TcpOutcomes(host) == IF host \in health THEN {"alive"} ELSE {"dead"}

\* HttpHealthCheck.is_alive: HTTPError, URLError and socket.timeout are caught;
\* what else urlopen, read, decode or re.search raise leaves the method.
HttpOutcomes(host) == IF host \in health THEN {"alive"} ELSE {"dead", "raise"}

ProbeOutcomes(kind, host) ==
    IF kind = "tcp" THEN TcpOutcomes(host) ELSE HttpOutcomes(host)

(***************************************************************************)
(* HostsManager.  Its operations are entered in one step and left in a    *)
(* later one, so that what other threads do meanwhile is visible.          *)
(***************************************************************************)
\* _read_hosts_file raises HostsManagerError on these marker configurations.
Corrupt(file) == file.markers \in {"begin_only", "end_only", "end_before_begin"}

\* load_persisted_entries: the mapping parsed from the block (none: empty).
Parsed(file) == IF file.markers = "both" THEN file.block ELSE EmptyMap

\* upsert_entry, the mapping: entries[local_host] = gethostbyname(backend_host).
Upserted(m, local_host, backend_host) ==
    [h \in DOMAIN m \cup {local_host} |->
        IF h = local_host THEN Resolve(backend_host) ELSE m[h]]

\* remove_unexpected_entries keeping the keys that are not expected.
Expected_inverted(m, expected) ==
    [h \in {k \in DOMAIN m : \A i \in 1 .. Len(expected) : expected[i] # k} |-> m[h]]

\* remove_unexpected_entries: the entries whose key is expected.
Expected(m, expected) ==
    [h \in {k \in DOMAIN m : \E i \in 1 .. Len(expected) : expected[i] = k} |-> m[h]]

\* _upsert_redirector_block: the file with its block rendered from the mapping.
Rewritten(file, m) == [markers |-> "both", block |-> m]

\* remove_redirector_block: the file without its block.
WithoutBlock(file) == [markers |-> "none", block |-> EmptyMap]

\* A thread enters / leaves an operation of the HostsManager.
HmEnter(t) == hm_active' = hm_active \cup {t}
HmLeave(t) == hm_active' = hm_active \ {t}

(***************************************************************************)
(* loadbalancer.py                                                         *)
(***************************************************************************)
AbsentLb ==
    [state |-> "absent", local_host |-> "", backend_hosts |-> <<>>,
     strategy |-> "", healthcheck |-> "", healthcheck_period |-> 0,
     next_index |-> 0, stop_event |-> FALSE,
     timeout |-> 0, backend_alive |-> FALSE, backend_changed |-> FALSE,
     backend_host |-> ""]

\* LoadBalancer.__init__: the object built from a document, its strategy holding idx.
NewLb(config, idx) ==
    [state |-> "created", local_host |-> config.local_host,
     backend_hosts |-> config.backend_hosts, strategy |-> config.strategy,
     healthcheck |-> config.healthcheck, healthcheck_period |-> config.period,
     next_index |-> idx, stop_event |-> FALSE,
     timeout |-> 0, backend_alive |-> FALSE, backend_changed |-> FALSE,
     backend_host |-> ""]

\* Thread.is_alive(): the thread was started and has not ended.
ThreadAlive(n) == lb[n].state \in {"started", "wait", "probing"}

\* The thread has ended: run() returned or an exception left it.
ThreadEnded(n) == lb[n].state \in {"done", "crashed"}

\* run(), lines 42-45: the locals before the loop.
RunInit(n) ==
    /\ lb[n].state = "started"
    /\ \E nidx \in NextIndexes(lb[n].strategy, lb[n].next_index, lb[n].backend_hosts) :
          lb' = [lb EXCEPT ![n] =
                    [@ EXCEPT !.state = "wait", !.timeout = 0,
                              !.backend_alive = FALSE, !.backend_changed = TRUE,
                              !.backend_host = HostAt(lb[n].next_index, lb[n].backend_hosts),
                              !.next_index = nidx]]
    /\ UNCHANGED << unit_vars, cfg_vars, env_vars, main_vars, hm_vars, queue, hist >>

\* Line 48 as time.sleep(timeout): the loop body starts whatever the event.
WaitTimeout_ignores_stop(n) ==
    /\ lb[n].state = "wait"
    /\ lb' = [lb EXCEPT ![n].state = "probing"]
    /\ UNCHANGED << unit_vars, cfg_vars, env_vars, main_vars, hm_vars, queue, hist >>

\* self._stop_event.wait(timeout) returns False: the loop body starts.
WaitTimeout(n) ==
    /\ lb[n].state = "wait"
    /\ ~lb[n].stop_event
    /\ lb' = [lb EXCEPT ![n].state = "probing"]
    /\ UNCHANGED << unit_vars, cfg_vars, env_vars, main_vars, hm_vars, queue, hist >>

\* self._stop_event.wait(timeout) returns True: run() returns.
WaitStopped(n) ==
    /\ lb[n].state = "wait"
    /\ lb[n].stop_event
    /\ lb' = [lb EXCEPT ![n].state = "done"]
    /\ UNCHANGED << unit_vars, cfg_vars, env_vars, main_vars, hm_vars, queue, hist >>

\* Lines 54-60 without the assignment of line 58: the backend is kept.
AfterFailure_keeps_backend(w, nidx) ==
    [w EXCEPT !.backend_alive = FALSE,
              !.next_index = nidx,
              !.backend_changed = TRUE,
              !.timeout = 1]

\* Lines 54-59 without line 60: the timeout is left as it was.
AfterFailure_no_timeout(w, nidx) ==
    [w EXCEPT !.backend_alive = FALSE,
              !.backend_host = HostAt(w.next_index, w.backend_hosts),
              !.next_index = nidx,
              !.backend_changed = TRUE]

\* Lines 54-60: what a failed probe does to the locals.
AfterFailure(w, nidx) ==
    [w EXCEPT !.backend_alive = FALSE,
              !.backend_host = HostAt(w.next_index, w.backend_hosts),
              !.next_index = nidx,
              !.backend_changed = TRUE,
              !.timeout = 1]

\* Line 63 without "and backend_alive": a backend is published as soon as selected.
ShouldEmit_unprobed(w) == w.backend_changed

\* Line 63 without "backend_changed and": every healthy probe is published.
ShouldEmit_every_probe(w) == w.backend_alive

\* Line 63: if backend_changed and backend_alive.
ShouldEmit(w) == w.backend_changed /\ w.backend_alive

\* Line 73 without line 76: the timeout of a failed probe is kept.
AfterEmit_retry_timeout(w) == [w EXCEPT !.backend_changed = FALSE, !.timeout = 1]

\* Line 76 without line 73: backend_changed is not reset.
AfterEmit_dirty(w) == [w EXCEPT !.timeout = w.healthcheck_period]

\* Lines 73-76: what an emission does to the locals.
AfterEmit(w) ==
    [w EXCEPT !.backend_changed = FALSE, !.timeout = w.healthcheck_period]

\* queue.Queue(maxsize=1) with put_nowait and queue.Full ignored: a pair put
\* while another waits is dropped.
QueueWith_bounded(q, item) == IF Len(q) >= 1 THEN q ELSE Append(q, item)

\* queue.LifoQueue in place of queue.Queue: the newest item leaves first.
QueueWith_lifo(q, item) == << item >> \o q

\* core.py line 20, queue.Queue(): put appends, get takes the head.
QueueWith(q, item) == Append(q, item)

\* Line 70 with one key for every load balancer in place of self._local_host.
QueuePut_shared_key(n, local_host, backend_host) ==
    /\ queue' = QueueWith(queue, [local_host |-> "app.local",
                                  backend_host |-> backend_host, src |-> n])
    /\ UNCHANGED hm_vars

\* Line 70 replaced by a call of upsert_entry on the worker thread.
QueuePut_direct_write(n, local_host, backend_host) ==
    /\ entries' = Upserted(entries, local_host, backend_host)
    /\ hosts_file' = Rewritten(hosts_file, entries')
    /\ hm_active' = hm_active \cup {n}
    /\ UNCHANGED queue

\* Line 70: self._queue.put((self._local_host, backend_host)).  src names the
\* thread that put the pair; the program does not carry it.
QueuePut(n, local_host, backend_host) ==
    /\ queue' = QueueWith(queue, [local_host |-> local_host,
                                  backend_host |-> backend_host, src |-> n])
    /\ UNCHANGED hm_vars

\* Lines 51-76: is_alive returns and the rest of the loop body runs.
Probe(n) ==
    /\ lb[n].state = "probing"
    /\ \E outcome \in ProbeOutcomes(lb[n].healthcheck, lb[n].backend_host) \ {"raise"} :
       \E nidx \in NextIndexes(lb[n].strategy, lb[n].next_index, lb[n].backend_hosts) :
          LET w  == lb[n]
              w1 == IF outcome = "dead"
                    THEN AfterFailure(w, nidx)
                    ELSE [w EXCEPT !.backend_alive = TRUE]
              w2 == IF ShouldEmit(w1) THEN AfterEmit(w1) ELSE w1
          IN  /\ lb' = [lb EXCEPT ![n] = [w2 EXCEPT !.state = "wait"]]
              /\ IF ShouldEmit(w1)
                 THEN QueuePut(n, w1.local_host, w1.backend_host)
                 ELSE UNCHANGED << queue, hm_vars >>
              /\ hist' = [hist EXCEPT
                    !.emitted[n] = IF ShouldEmit(w1) THEN Append(@, w1.backend_host) ELSE @,
                    !.failed_since_emit[n] =
                        IF ShouldEmit(w1) THEN FALSE
                        ELSE IF outcome = "dead" THEN TRUE ELSE @]
    /\ UNCHANGED << unit_vars, cfg_vars, env_vars, main_vars >>

\* An exception leaves is_alive and, uncaught in run(), ends the thread.
ProbeRaises(n) ==
    /\ lb[n].state = "probing"
    /\ "raise" \in ProbeOutcomes(lb[n].healthcheck, lb[n].backend_host)
    /\ lb' = [lb EXCEPT ![n].state = "crashed"]
    /\ UNCHANGED << unit_vars, cfg_vars, env_vars, main_vars, hm_vars, queue, hist >>

Worker(n) ==
    \/ RunInit(n)
    \/ WaitTimeout(n)
    \/ WaitStopped(n)
    \/ Probe(n)
    \/ ProbeRaises(n)

(***************************************************************************)
(* cli.py main() and core.py Redirector, on the main thread.               *)
(***************************************************************************)
\* main() returns code: initialise() or run() has ended.
MainReturns(code) ==
    /\ main_pc' = "exited"
    /\ exit_code' = code

\* initialise(), lines 94-106: the core configuration, the PID file, logging.
LoadCoreConfig ==
    /\ main_pc = "initialise"
    /\ IF core_config.ok
       THEN /\ pid_file' = IF core_config.pid_file THEN "written" ELSE pid_file
            /\ main_pc' = "load_persisted_entries"
            /\ HmEnter(Main)
            /\ UNCHANGED exit_code
       ELSE \* ConfigError -> RuntimeError(e) -> main returns 1
            /\ MainReturns(1)
            /\ UNCHANGED << pid_file, hm_active >>
    /\ UNCHANGED << unit_vars, cfg_vars, env_vars, run_flag, load_balancers, expected_hostnames,
                    cfg_i, event, entries, hosts_file, queue, lb, hist >>

\* _initialise_components, line 52: load_persisted_entries returns or raises.
LoadPersistedEntries ==
    /\ main_pc = "load_persisted_entries"
    /\ HmLeave(Main)
    /\ IF Corrupt(hosts_file)
       THEN \* HostsManagerError -> RuntimeError() -> main returns 1
            /\ MainReturns(1)
            /\ UNCHANGED << entries, cfg_i >>
       ELSE /\ entries' = Parsed(hosts_file)
            /\ main_pc' = "load_lb_configs"
            /\ cfg_i' = 1
            /\ UNCHANGED exit_code
    /\ UNCHANGED << unit_vars, cfg_vars, env_vars, run_flag, load_balancers, expected_hostnames,
                    event, pid_file, hosts_file, queue, lb, hist >>

\* Lines 62-67 dropped: a second load balancer of a name replaces the first.
IsDuplicate_never(name) == FALSE

\* Line 62: the name is already the key of a load balancer.
IsDuplicate(name) == \E i \in 1 .. Len(load_balancers) : load_balancers[i] = name

\* _initialise_components, lines 57-74: one turn of the loop over the documents.
LoadLbConfig ==
    /\ main_pc = "load_lb_configs"
    /\ cfg_i <= Len(lb_configs)
    /\ LET config == lb_configs[cfg_i] IN
       IF ~config.valid \/ IsDuplicate(config.name)
       THEN \* ConfigError, or two load balancers of one name: RuntimeError()
            /\ MainReturns(1)
            /\ UNCHANGED << load_balancers, expected_hostnames, cfg_i, lb >>
       ELSE /\ \E idx \in InitialIndexes(config.strategy, config.backend_hosts) :
                 lb' = [lb EXCEPT ![config.name] = NewLb(config, idx)]
            /\ load_balancers' = Append(load_balancers, config.name)
            /\ expected_hostnames' = Append(expected_hostnames, config.local_host)
            /\ cfg_i' = cfg_i + 1
            /\ UNCHANGED << main_pc, exit_code >>
    /\ UNCHANGED << unit_vars, cfg_vars, env_vars, run_flag, event, pid_file, hm_vars, queue, hist >>

\* _initialise_components, lines 77-82: after the loop.
EndLbConfigs ==
    /\ main_pc = "load_lb_configs"
    /\ cfg_i > Len(lb_configs)
    /\ IF Len(load_balancers) = 0
       THEN \* no load balancer was defined: RuntimeError()
            /\ MainReturns(1)
            /\ UNCHANGED hm_active
       ELSE /\ main_pc' = "remove_unexpected_entries"
            /\ HmEnter(Main)
            /\ UNCHANGED exit_code
    /\ UNCHANGED << unit_vars, cfg_vars, env_vars, run_flag, load_balancers, expected_hostnames,
                    cfg_i, event, pid_file, entries, hosts_file, queue, lb, hist >>

\* _initialise_components without line 82: the loaded entries are all kept.
RemoveUnexpectedEntries_skipped ==
    /\ main_pc = "remove_unexpected_entries"
    /\ HmLeave(Main)
    /\ main_pc' = "start_lbs"
    /\ cfg_i' = 1
    /\ UNCHANGED << unit_vars, cfg_vars, env_vars, exit_code, run_flag, load_balancers,
                    expected_hostnames, event, pid_file, entries, hosts_file, queue, lb, hist >>

\* Line 82: remove_unexpected_entries(expected_hostnames) returns; initialise() does.
RemoveUnexpectedEntries ==
    /\ main_pc = "remove_unexpected_entries"
    /\ entries' = Expected(entries, expected_hostnames)
    /\ HmLeave(Main)
    /\ main_pc' = "start_lbs"
    /\ cfg_i' = 1
    /\ UNCHANGED << unit_vars, cfg_vars, env_vars, exit_code, run_flag, load_balancers,
                    expected_hostnames, event, pid_file, hosts_file, queue, lb, hist >>

\* run(), lines 142-143: lb.start(), one load balancer per step.
StartLb ==
    /\ main_pc = "start_lbs"
    /\ lb' = [lb EXCEPT ![load_balancers[cfg_i]].state = "started"]
    /\ IF cfg_i < Len(load_balancers)
       THEN cfg_i' = cfg_i + 1 /\ UNCHANGED main_pc
       ELSE cfg_i' = 1 /\ main_pc' = "loop"
    /\ UNCHANGED << unit_vars, cfg_vars, env_vars, exit_code, run_flag, load_balancers,
                    expected_hostnames, event, pid_file, hm_vars, queue, hist >>

\* Line 147: while self._run.
LoopCheck ==
    /\ main_pc = "loop"
    /\ main_pc' = IF run_flag THEN "get" ELSE "stop_lbs"
    /\ cfg_i' = 1
    /\ UNCHANGED << unit_vars, cfg_vars, env_vars, exit_code, run_flag, load_balancers,
                    expected_hostnames, event, pid_file, hm_vars, queue, lb, hist >>

\* Line 152: self._queue.get(timeout=1) returns a pair.
QueueGet ==
    /\ main_pc = "get"
    /\ queue # << >>
    /\ event' = Head(queue)
    /\ queue' = Tail(queue)
    /\ main_pc' = "call_upsert"
    /\ hist' = [hist EXCEPT !.dequeued = Append(@, event')]
    /\ UNCHANGED << unit_vars, cfg_vars, env_vars, exit_code, run_flag, load_balancers,
                    expected_hostnames, cfg_i, pid_file, hm_vars, lb >>

\* Line 155: upsert_entry(local_host, backend_host) is called.
CallUpsert ==
    /\ main_pc = "call_upsert"
    /\ main_pc' = "upsert_entry"
    /\ HmEnter(Main)
    /\ hist' = [hist EXCEPT !.upsert_calls = Append(@, event)]
    /\ UNCHANGED << unit_vars, cfg_vars, env_vars, exit_code, run_flag, load_balancers,
                    expected_hostnames, cfg_i, event, pid_file, entries, hosts_file,
                    queue, lb >>

\* Lines 152, 157: the get times out (queue.Empty).
QueueEmpty ==
    /\ main_pc = "get"
    /\ queue = << >>
    /\ main_pc' = "loop"
    /\ UNCHANGED << unit_vars, cfg_vars, env_vars, exit_code, run_flag, load_balancers,
                    expected_hostnames, cfg_i, event, pid_file, hm_vars, queue, lb, hist >>

\* Line 155: upsert_entry(local_host, backend_host) returns.
UpsertEntry ==
    /\ main_pc = "upsert_entry"
    /\ entries' = Upserted(entries, event.local_host, event.backend_host)
    /\ hosts_file' = Rewritten(hosts_file, entries')
    /\ HmLeave(Main)
    /\ main_pc' = "loop"
    /\ UNCHANGED << unit_vars, cfg_vars, env_vars, exit_code, run_flag, load_balancers,
                    expected_hostnames, cfg_i, event, pid_file, queue, lb, hist >>

\* Lines 160-162 without "self._run = False": the error is only logged.
RunAfterError_kept == run_flag

\* Line 162: self._run = False.
RunAfterError == FALSE

\* Lines 155, 160-162: upsert_entry raises HostsManagerError (the name does not
\* resolve, or the rewrite fails after the mapping was updated).
UpsertEntryFails ==
    /\ main_pc = "upsert_entry"
    /\ \E resolved \in BOOLEAN :
          entries' = IF resolved
                     THEN Upserted(entries, event.local_host, event.backend_host)
                     ELSE entries
    /\ HmLeave(Main)
    /\ run_flag' = RunAfterError
    /\ main_pc' = "loop"
    /\ hist' = [hist EXCEPT !.hm_error = TRUE]
    /\ UNCHANGED << unit_vars, cfg_vars, env_vars, exit_code, load_balancers,
                    expected_hostnames, cfg_i, event, pid_file, hosts_file, queue, lb >>

\* Lines 124-125 dropped: the load balancers are not waited for.
JoinReturns_nowait(n) == TRUE

\* Thread.join() returns: the thread has ended.
JoinReturns(n) == ThreadEnded(n)

\* _do_stop, lines 120-121: lb.stop(), one load balancer per step.
StopLb ==
    /\ main_pc = "stop_lbs"
    /\ lb' = [lb EXCEPT ![load_balancers[cfg_i]].stop_event = TRUE]
    /\ IF cfg_i < Len(load_balancers)
       THEN cfg_i' = cfg_i + 1 /\ UNCHANGED main_pc
       ELSE cfg_i' = 1 /\ main_pc' = "join_lbs"
    /\ UNCHANGED << unit_vars, cfg_vars, env_vars, exit_code, run_flag, load_balancers,
                    expected_hostnames, event, pid_file, hm_vars, queue, hist >>

\* _do_stop, lines 124-128: lb.join(), one load balancer per step; after the
\* last one, remove_redirector_block is called unless the block persists.
JoinLb ==
    /\ main_pc = "join_lbs"
    /\ JoinReturns(load_balancers[cfg_i])
    /\ hist' = [hist EXCEPT !.joined = @ \cup {load_balancers[cfg_i]}]
    /\ IF cfg_i < Len(load_balancers)
       THEN cfg_i' = cfg_i + 1 /\ UNCHANGED << main_pc, hm_active >>
       ELSE /\ cfg_i' = 1
            /\ IF ~core_config.persist_hosts_block
               THEN main_pc' = "remove_redirector_block" /\ HmEnter(Main)
               ELSE main_pc' = "remove_pid" /\ UNCHANGED hm_active
    /\ UNCHANGED << unit_vars, cfg_vars, env_vars, exit_code, run_flag, load_balancers,
                    expected_hostnames, event, pid_file, entries, hosts_file, queue, lb >>

\* _do_stop, line 129: remove_redirector_block() returns.
RemoveRedirectorBlock ==
    /\ main_pc = "remove_redirector_block"
    /\ hosts_file' = WithoutBlock(hosts_file)
    /\ HmLeave(Main)
    /\ main_pc' = "remove_pid"
    /\ hist' = [hist EXCEPT !.block_removed = TRUE]
    /\ UNCHANGED << unit_vars, cfg_vars, env_vars, exit_code, run_flag, load_balancers,
                    expected_hostnames, cfg_i, event, pid_file, entries, queue, lb >>

\* _do_stop, line 129: remove_redirector_block() raises HostsManagerError; it
\* leaves run() and main() returns 1 (cli.py, lines 57-60).
RemoveRedirectorBlockFails ==
    /\ main_pc = "remove_redirector_block"
    /\ HmLeave(Main)
    /\ MainReturns(1)
    /\ hist' = [hist EXCEPT !.run_raised = TRUE]
    /\ UNCHANGED << unit_vars, cfg_vars, env_vars, run_flag, load_balancers,
                    expected_hostnames, cfg_i, event, pid_file, entries, hosts_file,
                    queue, lb >>

\* _do_stop, lines 132-133, run() returns, main() returns 0 (cli.py, line 62).
RemovePid ==
    /\ main_pc = "remove_pid"
    /\ pid_file' = IF core_config.pid_file THEN "removed" ELSE pid_file
    /\ MainReturns(0)
    /\ hist' = [hist EXCEPT !.run_returned = TRUE]
    /\ UNCHANGED << unit_vars, cfg_vars, env_vars, run_flag, load_balancers,
                    expected_hostnames, cfg_i, event, hm_vars, queue, lb >>

MainThread ==
    \/ LoadCoreConfig
    \/ LoadPersistedEntries
    \/ LoadLbConfig
    \/ EndLbConfigs
    \/ RemoveUnexpectedEntries
    \/ StartLb
    \/ LoopCheck
    \/ QueueGet
    \/ CallUpsert
    \/ QueueEmpty
    \/ UpsertEntry
    \/ UpsertEntryFails
    \/ StopLb
    \/ JoinLb
    \/ RemoveRedirectorBlock
    \/ RemoveRedirectorBlockFails
    \/ RemovePid

(***************************************************************************)
(* Signals (cli.py, signal_handler); Python runs the handler on the main   *)
(* thread, between two of its instructions.                                *)
(***************************************************************************)
\* stop() without line 175: the request is only logged.
RunAfterStop_noop == run_flag

\* stop(), core.py line 175: self._run = False.
RunAfterStop == FALSE

\* SIGINT, SIGTERM: redirector.stop().
Sigterm ==
    /\ main_pc # "exited"
    /\ run_flag' = RunAfterStop
    /\ hist' = [hist EXCEPT !.stop_called = TRUE]
    /\ UNCHANGED << unit_vars, cfg_vars, env_vars, main_pc, exit_code, load_balancers,
                    expected_hostnames, cfg_i, event, pid_file, hm_vars, queue, lb >>

\* SIGHUP: redirector.reload(); Redirector defines no reload, so the call raises
\* AttributeError where the main thread is, and main() returns 1 (lines 57-60).
Sighup ==
    /\ main_pc # "exited"
    /\ MainReturns(1)
    /\ HmLeave(Main)
    /\ hist' = [hist EXCEPT !.reload_called = TRUE]
    /\ UNCHANGED << unit_vars, cfg_vars, env_vars, run_flag, load_balancers,
                    expected_hostnames, cfg_i, event, pid_file, entries, hosts_file,
                    queue, lb >>

(***************************************************************************)
(* The environment: a backend comes up or goes down.                       *)
(***************************************************************************)
Flip(b) ==
    /\ flips < MaxFlips
    /\ \E i \in 1 .. Len(lb_configs) :
          \E j \in 1 .. Len(lb_configs[i].backend_hosts) : lb_configs[i].backend_hosts[j] = b
    /\ flips' = flips + 1
    /\ health' = IF b \in health THEN health \ {b} ELSE health \cup {b}
    /\ UNCHANGED << unit_vars, cfg_vars, main_vars, hm_vars, queue, lb, hist >>

(***************************************************************************)
(* Specifications.                                                         *)
(***************************************************************************)
\* No upsert_entry call: the arguments of the call, the address resolved.
NoCall == [host |-> "", ip |-> ""]

\* No upsert_entry call has just returned: the call, and the mapping and the
\* file it left.
NoneDone == [call |-> NoCall, entries |-> << >>, file |-> << >>]

\* No HostsManager is exercised on its own: HostsManager() over an empty file.
NoHostsManager ==
    [file |-> << >>, initial |-> << >>, entries |-> << >>, pc |-> "idle", op |-> "",
     old |-> << >>, new |-> << >>, tmp_exists |-> FALSE, tmp |-> << >>,
     error |-> "", ops |-> 0, call |-> NoCall, done |-> NoneDone]

\* No health check is exercised on its own.
NoProbe ==
    [state |-> "idle", kind |-> "tcp", expected_status |-> << >>,
     expected_response |-> << "none" >>, net |-> [kind |-> "connected"],
     alive |-> FALSE, reason |-> ""]

\* No strategy object is exercised on its own.
NoStrategy ==
    [state |-> "none", kind |-> "sequential", hosts |-> << >>, next_index |-> 0,
     returned |-> << >>, picks |-> << >>]

HistInit ==
    [ emitted           |-> [n \in Names |-> << >>],
      failed_since_emit |-> [n \in Names |-> FALSE],
      dequeued          |-> << >>,
      upsert_calls      |-> << >>,
      joined            |-> {},
      hm_error          |-> FALSE,
      stop_called       |-> FALSE,
      reload_called     |-> FALSE,
      block_removed     |-> FALSE,
      run_returned      |-> FALSE,
      run_raised        |-> FALSE ]

Init ==
    /\ \E d \in Deployments :
          /\ lb_configs = d.lb_configs
          /\ core_config = d.core_config
          /\ hosts_file = d.hosts_file
    /\ health = Backends
    /\ flips = 0
    /\ main_pc = "initialise"
    /\ exit_code = -1
    /\ run_flag = TRUE
    /\ load_balancers = << >>
    /\ expected_hostnames = << >>
    /\ cfg_i = 1
    /\ queue = << >>
    /\ event = [local_host |-> "", backend_host |-> "", src |-> ""]
    /\ pid_file = "absent"
    /\ entries = EmptyMap
    /\ lb = [n \in Names |-> AbsentLb]
    /\ hm_active = {}
    /\ hist = HistInit
    /\ strat = NoStrategy
    /\ probe = NoProbe
    /\ hf = NoHostsManager

Next ==
    \/ MainThread
    \/ \E n \in Names : Worker(n)
    \/ Sigterm
    \/ \E b \in Backends : Flip(b)

Spec == Init /\ [][Next]_vars

\* The same with SIGHUP delivered.
NextHup == Next \/ Sighup

SpecHup == Init /\ [][NextHup]_vars

\* The threads are scheduled and a probe ends (both health checks set a timeout).
Fairness ==
    /\ WF_vars(MainThread)
    /\ \A n \in Names : WF_vars(Worker(n))

FairSpec == Spec /\ Fairness

(***************************************************************************)
(* Failover: one sequential service over the pool b1, b2, where b1 fails   *)
(* every probe and b2 passes every probe.                                  *)
(***************************************************************************)
\* svc-a probed over HTTP.
SvcAHttp == [SvcA EXCEPT !.healthcheck = "http"]

InitFailover ==
    /\ lb_configs \in { << SvcA >>, << SvcAHttp >> }
    /\ core_config \in GoodCores
    /\ hosts_file \in { FileNoBlock, FileWithBlock }
    /\ health = Backends \ {"b1"}
    /\ flips = 0
    /\ main_pc = "initialise"
    /\ exit_code = -1
    /\ run_flag = TRUE
    /\ load_balancers = << >>
    /\ expected_hostnames = << >>
    /\ cfg_i = 1
    /\ queue = << >>
    /\ event = [local_host |-> "", backend_host |-> "", src |-> ""]
    /\ pid_file = "absent"
    /\ entries = EmptyMap
    /\ lb = [n \in Names |-> AbsentLb]
    /\ hm_active = {}
    /\ hist = HistInit
    /\ strat = NoStrategy
    /\ probe = NoProbe
    /\ hf = NoHostsManager

\* A load balancer whose probes return: (True, "OK") or (False, reason).
ReturningWorker(n) ==
    \/ RunInit(n)
    \/ WaitTimeout(n)
    \/ WaitStopped(n)
    \/ Probe(n)

\* The health of the backends does not change.
NextFailover ==
    \/ MainThread
    \/ \E n \in Names : ReturningWorker(n)
    \/ Sigterm

SpecFailover == InitFailover /\ [][NextFailover]_vars

\* The threads are scheduled and a probe ends.
FairFailover ==
    /\ SpecFailover
    /\ WF_vars(MainThread)
    /\ \A n \in Names : WF_vars(ReturningWorker(n))

(***************************************************************************)
(* A sequential service over three backends of which b3 stays healthy      *)
(* while b1 and b2 come and go.                                            *)
(***************************************************************************)
SvcSeq3 ==
    [name |-> "svc-a", local_host |-> "app.local", backend_hosts |-> <<"b1", "b2", "b3">>,
     strategy |-> "sequential", healthcheck |-> "tcp", period |-> 5, valid |-> TRUE]

\* The same service probed over HTTP.
SvcSeq3Http == [SvcSeq3 EXCEPT !.healthcheck = "http"]

InitBounded ==
    /\ lb_configs \in { << SvcSeq3 >>, << SvcSeq3Http >> }
    /\ core_config \in GoodCores
    /\ hosts_file = FileNoBlock
    /\ health \in { Backends, {"b3"} }
    /\ flips = 0
    /\ main_pc = "initialise"
    /\ exit_code = -1
    /\ run_flag = TRUE
    /\ load_balancers = << >>
    /\ expected_hostnames = << >>
    /\ cfg_i = 1
    /\ queue = << >>
    /\ event = [local_host |-> "", backend_host |-> "", src |-> ""]
    /\ pid_file = "absent"
    /\ entries = EmptyMap
    /\ lb = [n \in Names |-> AbsentLb]
    /\ hm_active = {}
    /\ hist = HistInit
    /\ strat = NoStrategy
    /\ probe = NoProbe
    /\ hf = NoHostsManager

\* b3 stays healthy: only b1 and b2 change.
NextBounded ==
    \/ MainThread
    \/ \E n \in Names : Worker(n)
    \/ Sigterm
    \/ \E b \in {"b1", "b2"} : Flip(b)

SpecBounded == InitBounded /\ [][NextBounded]_vars

(***************************************************************************)
(* A strategy object on its own: built from a pool, then asked for hosts.   *)
(***************************************************************************)
prog_vars == << cfg_vars, env_vars, main_vars, hm_vars, queue, lb, hist >>

\* The daemon is not started.
Offline ==
    /\ lb_configs = << >>
    /\ core_config = BadCore
    /\ hosts_file = FileNoBlock
    /\ health = Backends
    /\ flips = 0
    /\ main_pc = "initialise"
    /\ exit_code = -1
    /\ run_flag = TRUE
    /\ load_balancers = << >>
    /\ expected_hostnames = << >>
    /\ cfg_i = 1
    /\ queue = << >>
    /\ event = [local_host |-> "", backend_host |-> "", src |-> ""]
    /\ pid_file = "absent"
    /\ entries = EmptyMap
    /\ lb = [n \in Names |-> AbsentLb]
    /\ hm_active = {}
    /\ hist = HistInit

\* The pools: every sequence of at most MaxPool backends, a name repeated or not.
Pools == UNION { [1 .. k -> Backends] : k \in 0 .. MaxPool }

\* _BaseStrategy.__init__, lines 14-16, then lines 36 / 61: ValueError on an
\* empty list, else the object with its first index.
StrategyNew ==
    /\ strat.state = "none"
    /\ IF Len(strat.hosts) = 0
       THEN strat' = [strat EXCEPT !.state = "error"]
       ELSE \E idx \in InitialIndexes(strat.kind, strat.hosts) :
               strat' = [strat EXCEPT !.state = "built", !.next_index = idx]
    /\ UNCHANGED << prog_vars, probe, hf >>

\* next_host(), lines 44-49 / 69-79: self._hosts[self._next_index] (IndexError
\* out of range), then the index of the next call.
NextHost ==
    /\ strat.state = "built"
    /\ Len(strat.returned) < MaxCalls
    /\ IF strat.next_index \in 0 .. (Len(strat.hosts) - 1)
       THEN \E nidx \in NextIndexes(strat.kind, strat.next_index, strat.hosts) :
               strat' = [strat EXCEPT
                           !.returned = Append(@, HostAt(strat.next_index, strat.hosts)),
                           !.picks = Append(@, strat.next_index),
                           !.next_index = nidx]
       ELSE strat' = [strat EXCEPT !.state = "raised"]
    /\ UNCHANGED << prog_vars, probe, hf >>

InitStrategy ==
    /\ Offline
    /\ probe = NoProbe
    /\ hf = NoHostsManager
    /\ \E kind \in {"sequential", "random"}, hosts \in Pools :
          strat = [NoStrategy EXCEPT !.kind = kind, !.hosts = hosts]

NextStrategy == StrategyNew \/ NextHost

SpecStrategy == InitStrategy /\ [][NextStrategy]_vars

(***************************************************************************)
(* A health check on its own: is_alive(host) against what the network      *)
(* answers.  Strings are sequences of characters; a pattern is a string    *)
(* in which "." stands for any character and "(" opens a group.            *)
(***************************************************************************)
\* re.compile: a pattern with a group that is never closed is rejected (re.error).
ValidPattern(pattern) == \A i \in 1 .. Len(pattern) : pattern[i] # "("

\* re.search(pattern, string) is not None, for a valid pattern: the pattern
\* matches at some offset of the string.
ReSearch(pattern, string) ==
    \E off \in 0 .. (Len(string) - Len(pattern)) :
        \A j \in 1 .. Len(pattern) :
            pattern[j] = "." \/ pattern[j] = string[off + j]

\* What is_alive does: it returns (alive, reason) or an exception leaves it.
Returned(alive, reason) == [state |-> "returned", alive |-> alive, reason |-> reason]
Raised(exception) == [state |-> "raised", alive |-> FALSE, reason |-> exception]

\* expected_response is None (the default of the schema).
None == << "none" >>

\* http.py line 93: re.search(str(response.code), self._expected_status).
StatusSearch(code, expected_status) ==
    [pattern |-> code, string |-> expected_status]

\* http.py line 104: re.search(decoded_response, self._expected_response).
ResponseSearch(decoded_response, expected_response) ==
    [pattern |-> decoded_response, string |-> expected_response]

\* HttpHealthCheck.is_alive, lines 85-120.
HttpIsAlive(expected_status, expected_response, net) ==
    CASE net.kind = "http_error" -> Returned(FALSE, "HTTP error")
      [] net.kind = "url_error"  -> Returned(FALSE, "URL error")
      [] net.kind = "timeout"    -> Returned(FALSE, "Timeout")
      [] OTHER ->
           LET status == StatusSearch(net.code, expected_status) IN
           IF ~ValidPattern(status.pattern) THEN Raised("re.error")
           ELSE IF ~ReSearch(status.pattern, status.string)
           THEN Returned(FALSE, "Got HTTP code")
           ELSE IF expected_response = None THEN Returned(TRUE, "OK")
           ELSE IF net.read = "reset" THEN Raised("ConnectionResetError")
           ELSE IF ~net.decodable THEN Raised("UnicodeDecodeError")
           ELSE LET response == ResponseSearch(net.body, expected_response) IN
                IF ~ValidPattern(response.pattern) THEN Raised("re.error")
                ELSE IF ~ReSearch(response.pattern, response.string)
                THEN Returned(FALSE, "The HTTP response didn't match")
                ELSE Returned(TRUE, "OK")

\* TcpHealthCheck.is_alive, lines 32-53.
TcpIsAlive(net) ==
    CASE net.kind = "connected" -> Returned(TRUE, "OK")
      [] net.kind = "timeout"   -> Returned(FALSE, "Timeout")
      [] net.kind = "gaierror"  -> Returned(FALSE, "DNS resolution failed")
      [] net.kind = "refused"   -> Returned(FALSE, "Connection refused")
      [] OTHER                  -> Returned(FALSE, "OS error")

\* The values of expected_status and expected_response a document may carry.
StatusPatterns == { <<"2","0","0">>, <<"2",".",".">>, <<"2","0">>, <<"2","0","4">> }
ResponsePatterns == { None, <<"o","k">>, <<"o",".">>, <<"(","o","k">> }

\* What a backend answers to the request: a response (urlopen hands over the
\* 2xx ones), or an error of urlopen.
HttpAnswers ==
    { [kind |-> "response", code |-> c, read |-> r, decodable |-> d, body |-> b] :
        c \in { <<"2","0","0">>, <<"2","0","4">> },
        r \in { "ok", "reset" },
        d \in BOOLEAN,
        b \in { << >>, <<"o","k">>, <<"o","k","a","y">>, <<"k","o">>, <<"(","o","k">> } }
    \cup { [kind |-> k] : k \in { "http_error", "url_error", "timeout" } }

\* What connect does.
TcpAnswers ==
    { [kind |-> k] : k \in { "connected", "timeout", "gaierror", "refused", "oserror" } }

HttpProbe ==
    /\ probe.state = "idle"
    /\ probe.kind = "http"
    /\ LET r == HttpIsAlive(probe.expected_status, probe.expected_response, probe.net)
       IN  probe' = [probe EXCEPT !.state = r.state, !.alive = r.alive, !.reason = r.reason]
    /\ UNCHANGED << prog_vars, strat, hf >>

TcpProbe ==
    /\ probe.state = "idle"
    /\ probe.kind = "tcp"
    /\ LET r == TcpIsAlive(probe.net)
       IN  probe' = [probe EXCEPT !.state = r.state, !.alive = r.alive, !.reason = r.reason]
    /\ UNCHANGED << prog_vars, strat, hf >>

InitProbe ==
    /\ Offline
    /\ strat = NoStrategy
    /\ hf = NoHostsManager
    /\ \/ \E es \in StatusPatterns, er \in ResponsePatterns, net \in HttpAnswers :
             probe = [NoProbe EXCEPT !.kind = "http", !.expected_status = es,
                                     !.expected_response = er, !.net = net]
       \/ \E net \in TcpAnswers : probe = [NoProbe EXCEPT !.net = net]

NextProbe == HttpProbe \/ TcpProbe

SpecProbe == InitProbe /\ [][NextProbe]_vars

(***************************************************************************)
(* The HostsManager on its own, with the hosts file as a sequence of lines. *)
(* A line is a sequence of words and runs of blanks; the two marker lines   *)
(* are single words.                                                       *)
(***************************************************************************)
REDIRECTOR_BEGIN_MARKER == << "# BEGIN REDIRECTOR" >>
REDIRECTOR_END_MARKER == << "# END REDIRECTOR" >>

\* The gap between the longest address and the hostnames.
MinGap == 2

\* Foreign lines of a hosts file.
Localhost == << "127.0.0.1", " ", "localhost" >>
Gateway == << "192.168.1.1", " ", "gateway" >>

\* The hostnames, in the order the block lists them, and the addresses.
Hostnames == << "app.local", "old.local", "web.local" >>
Addresses == { "10.0.0.1", "192.168.1.100" }

\* The position of the first line equal to marker, 0 if there is none.
IndexOf(lines, marker) ==
    IF \E i \in 1 .. Len(lines) : lines[i] = marker
    THEN CHOOSE i \in 1 .. Len(lines) :
            /\ lines[i] = marker
            /\ \A j \in 1 .. (i - 1) : lines[j] # marker
    ELSE 0

\* _read_hosts_file without the test of the order of the markers.
ReadHostsFile_unordered(lines) ==
    LET b == IndexOf(lines, REDIRECTOR_BEGIN_MARKER)
        e == IndexOf(lines, REDIRECTOR_END_MARKER)
    IN  IF b # 0 /\ e = 0
        THEN [error |-> "Only the BEGIN marker was found", begin |-> 0, end |-> 0]
        ELSE IF b = 0 /\ e # 0
        THEN [error |-> "Only the END marker was found", begin |-> 0, end |-> 0]
        ELSE [error |-> "", begin |-> b, end |-> e]

\* _read_hosts_file: the lines and the indexes of the markers, or the
\* HostsManagerError of a malformed marker configuration.
ReadHostsFile(lines) ==
    LET b == IndexOf(lines, REDIRECTOR_BEGIN_MARKER)
        e == IndexOf(lines, REDIRECTOR_END_MARKER)
    IN  IF b # 0 /\ e = 0
        THEN [error |-> "Only the BEGIN marker was found", begin |-> 0, end |-> 0]
        ELSE IF b = 0 /\ e # 0
        THEN [error |-> "Only the END marker was found", begin |-> 0, end |-> 0]
        ELSE IF e < b
        THEN [error |-> "The END marker was found before BEGIN marker", begin |-> 0, end |-> 0]
        ELSE [error |-> "", begin |-> b, end |-> e]

\* A run of n blanks.
RECURSIVE Blanks(_)
Blanks(n) == IF n <= 0 THEN "" ELSE " " \o Blanks(n - 1)

IsBlank(token) == token = Blanks(Len(token))

\* line.split(): the words of a line; words with no blank between them are
\* one word.
RECURSIVE Words(_)
Words(line) ==
    IF Len(line) = 0 THEN << >>
    ELSE IF IsBlank(line[1])
    THEN Words(Tail(line))
    ELSE IF Len(line) >= 3 /\ line[2] = ""
    THEN Words(<< line[1] \o line[3] >> \o SubSeq(line, 4, Len(line)))
    ELSE << line[1] >> \o Words(Tail(line))

\* The mapping as the dict holds it: pairs in insertion order, a hostname once.
HasKey(mapping, host) == \E i \in 1 .. Len(mapping) : mapping[i].host = host

\* entries[host] = ip as the append of a list: a stored key gets a second entry.
Stored_append(mapping, host, ip) == Append(mapping, [host |-> host, ip |-> ip])

\* entries[host] = ip: an existing key keeps its place, a new one comes last.
Stored(mapping, host, ip) ==
    IF HasKey(mapping, host)
    THEN [i \in 1 .. Len(mapping) |->
             IF mapping[i].host = host THEN [host |-> host, ip |-> ip] ELSE mapping[i]]
    ELSE Append(mapping, [host |-> host, ip |-> ip])

\* The mapping without its order: the set of its (hostname, address) pairs.
AsMap(mapping) == { mapping[i] : i \in 1 .. Len(mapping) }

\* load_persisted_entries, the lines between the markers: each is split into
\* an address and a hostname; any other number of words is an error.
RECURSIVE ParsedLines(_, _)
ParsedLines(lines, mapping) ==
    IF Len(lines) = 0 THEN [error |-> "", entries |-> mapping]
    ELSE LET w == Words(Head(lines)) IN
         IF Len(w) # 2 THEN [error |-> "malformed entry line", entries |-> << >>]
         ELSE ParsedLines(Tail(lines), Stored(mapping, w[2], w[1]))

\* The length of the longest address of the mapping.
RECURSIVE LongestIp(_)
LongestIp(mapping) ==
    IF Len(mapping) = 0 THEN 0
    ELSE LET rest == LongestIp(Tail(mapping))
             here == Len(Head(mapping).ip)
         IN  IF here > rest THEN here ELSE rest

\* The padding without the minimum gap: the longest address meets its hostname.
Padding_flush(mapping, ip) == Blanks(LongestIp(mapping) - Len(ip))

\* The blanks between an address and its hostname.
Padding(mapping, ip) == Blanks(LongestIp(mapping) + MinGap - Len(ip))

\* The mapping in the order of the block: by hostname.
RECURSIVE Ordered(_, _)
Ordered(mapping, hosts) ==
    IF Len(hosts) = 0 THEN << >>
    ELSE SelectSeq(mapping, LAMBDA e : e.host = Head(hosts)) \o Ordered(mapping, Tail(hosts))

\* _generate_redirector_block_content: BEGIN, a line per entry, END.
GenerateRedirectorBlockContent(mapping) ==
    LET o == Ordered(mapping, Hostnames)
    IN  << REDIRECTOR_BEGIN_MARKER >>
        \o [i \in 1 .. Len(o) |-> << o[i].ip, Padding(mapping, o[i].ip), o[i].host >>]
        \o << REDIRECTOR_END_MARKER >>

\* The lines before the block, a missing BEGIN taken for index 0: none.
LinesBefore_none(lines, begin) == SubSeq(lines, 1, begin - 1)

\* The lines before the block: those before BEGIN, or all without a block.
LinesBefore(lines, begin) ==
    IF begin = 0 THEN lines ELSE SubSeq(lines, 1, begin - 1)

\* The lines after the block, from the END marker on.
LinesAfter_inclusive(lines, end) ==
    IF end = 0 THEN << >> ELSE SubSeq(lines, end, Len(lines))

\* The lines after the block: those after END, or none without a block.
LinesAfter(lines, end) ==
    IF end = 0 THEN << >> ELSE SubSeq(lines, end + 1, Len(lines))

\* _upsert_redirector_block, step 3: the content to write.
Spliced(lines, begin, end, block) ==
    LinesBefore(lines, begin) \o block \o LinesAfter(lines, end)

\* The content written to the target itself, opened for writing.
TargetWhileWriting_inplace(target, written) == written

\* The target file while the new content is being written: untouched, the
\* content goes to the temporary file.
TargetWhileWriting(target, written) == target

\* load_persisted_entries: the mapping of the block, empty without a block;
\* HostsManagerError on malformed markers.
HmLoad ==
    /\ hf.pc = "idle"
    /\ LET r == ReadHostsFile(hf.file) IN
       IF r.error # ""
       THEN hf' = [hf EXCEPT !.pc = "failed", !.error = r.error]
       ELSE LET parsed == IF r.begin = 0
                          THEN [error |-> "", entries |-> << >>]
                          ELSE ParsedLines(SubSeq(hf.file, r.begin + 1, r.end - 1), << >>)
            IN  IF parsed.error # ""
                THEN hf' = [hf EXCEPT !.pc = "failed", !.error = parsed.error]
                ELSE hf' = [hf EXCEPT !.entries = parsed.entries, !.done = NoneDone]
    /\ UNCHANGED << prog_vars, strat, probe >>

\* upsert_entry: the address is stored, then the block is rewritten.
HmUpsertEntry ==
    /\ hf.pc = "idle"
    /\ hf.ops < MaxOps
    /\ \E i \in 1 .. Len(Hostnames), ip \in Addresses :
          hf' = [hf EXCEPT !.entries = Stored(@, Hostnames[i], ip),
                           !.call = [host |-> Hostnames[i], ip |-> ip],
                           !.op = "upsert", !.pc = "read"]
    /\ UNCHANGED << prog_vars, strat, probe >>

\* remove_redirector_block: the file is rewritten without the block.
HmRemoveBlock ==
    /\ hf.pc = "idle"
    /\ hf.ops < MaxOps
    /\ hf' = [hf EXCEPT !.op = "remove", !.pc = "read", !.done = NoneDone]
    /\ UNCHANGED << prog_vars, strat, probe >>

\* The rewrite, steps 1-3: read the file, locate the markers, splice.
RewriteRead ==
    /\ hf.pc = "read"
    /\ LET r == ReadHostsFile(hf.file)
           block == IF hf.op = "upsert"
                    THEN GenerateRedirectorBlockContent(hf.entries)
                    ELSE << >>
       IN  IF r.error # ""
           THEN hf' = [hf EXCEPT !.pc = "failed", !.error = r.error]
           ELSE hf' = [hf EXCEPT !.pc = "create", !.old = hf.file,
                                 !.new = Spliced(hf.file, r.begin, r.end, block)]
    /\ UNCHANGED << prog_vars, strat, probe >>

\* _rewrite_hosts_file, steps 4-5: os.stat, tempfile.mkstemp in the directory.
CreateTmp ==
    /\ hf.pc = "create"
    /\ hf' = [hf EXCEPT !.pc = "write", !.tmp_exists = TRUE, !.tmp = << >>]
    /\ UNCHANGED << prog_vars, strat, probe >>

\* Step 5: the content is written, a line at a time; then chmod and chown.
WriteTmp ==
    /\ hf.pc = "write"
    /\ IF Len(hf.tmp) < Len(hf.new)
       THEN LET written == SubSeq(hf.new, 1, Len(hf.tmp) + 1)
            IN  hf' = [hf EXCEPT !.tmp = written,
                                 !.file = TargetWhileWriting(hf.file, written)]
       ELSE hf' = [hf EXCEPT !.pc = "replace"]
    /\ UNCHANGED << prog_vars, strat, probe >>

\* Step 5: os.replace(temporary file, target).
ReplaceTarget ==
    /\ hf.pc = "replace"
    /\ hf' = [hf EXCEPT !.file = hf.tmp, !.tmp_exists = FALSE, !.tmp = << >>,
                        !.pc = "idle", !.ops = @ + 1,
                        !.done = IF hf.op = "upsert"
                                 THEN [call |-> hf.call, entries |-> hf.entries,
                                       file |-> hf.tmp]
                                 ELSE NoneDone]
    /\ UNCHANGED << prog_vars, strat, probe >>

\* The rewrite is interrupted after the temporary file was created and
\* before the replace: the process dies, or an I/O error is raised.
RewriteInterrupted ==
    /\ hf.pc \in {"write", "replace"}
    /\ \E how \in {"crashed", "failed"} :
          hf' = [hf EXCEPT !.pc = how,
                           !.error = IF how = "failed" THEN "I/O error" ELSE @]
    /\ UNCHANGED << prog_vars, strat, probe >>

\* A block as an earlier run left it.
OldBlock ==
    << REDIRECTOR_BEGIN_MARKER,
       << "192.168.1.100", "  ", "app.local" >>,
       << "10.0.0.1", "       ", "old.local" >>,
       REDIRECTOR_END_MARKER >>

\* The hosts files a HostsManager may find: without a block, with one block
\* (at the end, in the middle, at the start), and with malformed markers.
WellFormedFiles ==
    { << >>, << Localhost >>, << Localhost, Gateway >>,
      << Localhost >> \o OldBlock,
      << Localhost >> \o OldBlock \o << Gateway >>,
      OldBlock \o << Gateway >>,
      << Localhost, REDIRECTOR_BEGIN_MARKER, REDIRECTOR_END_MARKER, Gateway >> }

MalformedFiles ==
    { << Localhost, REDIRECTOR_BEGIN_MARKER, Gateway >>,
      << Localhost, REDIRECTOR_END_MARKER, Gateway >>,
      << Localhost, REDIRECTOR_END_MARKER, Gateway, REDIRECTOR_BEGIN_MARKER >> }

InitHosts ==
    /\ Offline
    /\ strat = NoStrategy
    /\ probe = NoProbe
    /\ \E f \in WellFormedFiles \cup MalformedFiles :
          hf = [NoHostsManager EXCEPT !.file = f, !.initial = f]

NextHosts ==
    \/ HmLoad
    \/ HmUpsertEntry
    \/ HmRemoveBlock
    \/ RewriteRead
    \/ CreateTmp
    \/ WriteTmp
    \/ ReplaceTarget
    \/ RewriteInterrupted

SpecHosts == InitHosts /\ [][NextHosts]_vars

(***************************************************************************)
(* Properties.                                                             *)
(***************************************************************************)
\* The document a load balancer was built from: the first of its name.
ConfigOf(n) ==
    lb_configs[CHOOSE i \in 1 .. Len(lb_configs) :
                 /\ lb_configs[i].name = n
                 /\ \A j \in 1 .. (i - 1) : lb_configs[j].name # n]

\* The services initialise() built a load balancer for.
Created == { load_balancers[i] : i \in 1 .. Len(load_balancers) }

\* This step, thread n put a pair on the queue.
Puts(n) ==
    /\ Len(queue') = Len(queue) + 1
    /\ Len(hist'.emitted[n]) = Len(hist.emitted[n]) + 1

HmPcs ==
    { "load_persisted_entries", "remove_unexpected_entries", "upsert_entry",
      "remove_redirector_block" }

\* C1: at most one thread executes a HostsManager operation, and it is the main
\* thread inside initialise() or run(); a step that changes the hosts file or
\* the entries mapping is a step of the main thread inside such an operation,
\* and no step of a load balancer thread touches either.
C1_SingleWriter ==
    [][ /\ hm_active' \subseteq {Main}
        /\ Cardinality(hm_active') <= 1
        /\ (Main \in hm_active' => main_pc' \in HmPcs)
        /\ (<< entries, hosts_file >>' # << entries, hosts_file >>
              => Main \in hm_active /\ lb' = lb)
        /\ (lb' # lb /\ main_pc' = main_pc => UNCHANGED << entries, hosts_file, hm_active >>)
      ]_vars

\* The main thread is inside upsert_entry while a load balancer thread probes.
C1_Witness ==
    /\ main_pc = "upsert_entry"
    /\ Main \in hm_active
    /\ \E n \in Names : lb[n].state = "probing"

\* C2: a pair put on the queue carries the local_host the putting load balancer
\* was configured with and the backend it probed in this very iteration, which
\* the probe found alive.
C2_EmitsProbedAlive ==
    [][ \A n \in Names :
          Puts(n) =>
            \E e \in { queue'[i] : i \in 1 .. Len(queue') } :
              /\ queue' = QueueWith(queue, e)
              /\ e.src = n
              /\ lb[n].state = "probing"
              /\ e.local_host = ConfigOf(n).local_host
              /\ e.backend_host = lb[n].backend_host
              /\ e.backend_host \in health
              /\ lb'[n].backend_alive
      ]_vars

\* svc-a published its second backend: its first failed a probe.
C2_Witness ==
    \E i \in 1 .. Len(queue) :
        /\ queue[i].src = "svc-a"
        /\ queue[i].local_host = "app.local"
        /\ queue[i].backend_host = "b2"

\* C3: a probe that finds the backend alive while backend_changed is false puts
\* nothing on the queue and leaves the timeout at the configured period; and a
\* load balancer that has put a pair before puts another only after a probe of
\* its own has failed since.
C3_EmitOnlyOnChange ==
    [][ \A n \in Names :
          /\ ( /\ lb[n].state = "probing"
               /\ lb'[n].state = "wait"
               /\ lb'[n].backend_alive
               /\ ~lb[n].backend_changed )
             => /\ queue' = queue
                /\ lb[n].timeout = lb[n].healthcheck_period
                /\ lb'[n].timeout = lb[n].healthcheck_period
          /\ (Puts(n) /\ hist.emitted[n] # << >>) => hist.failed_since_emit[n]
      ]_vars

\* A load balancer that has put two pairs probes an unchanged, healthy backend.
C3_Witness ==
    \E n \in Names :
        /\ Len(hist.emitted[n]) = 2
        /\ lb[n].state = "probing"
        /\ ~lb[n].backend_changed
        /\ lb[n].backend_host \in health

\* The pairs of a sequence that load balancer n put, as backends.
BackendsOf(n, seq) ==
    LET own == SelectSeq(seq, LAMBDA e : e.src = n)
    IN  [i \in 1 .. Len(own) |-> own[i].backend_host]

IsPrefix(a, b) ==
    /\ Len(a) <= Len(b)
    /\ \A i \in 1 .. Len(a) : a[i] = b[i]

\* upsert_entry was called once for every pair dequeued, with that pair, in the
\* order of the dequeues (the pair just dequeued is the next call).
OneUpsertPerEvent ==
    IF main_pc = "call_upsert"
    THEN hist.dequeued = Append(hist.upsert_calls, event)
    ELSE hist.dequeued = hist.upsert_calls

\* The calls for one service were made in the order its load balancer put the pairs.
UpsertsInEmitOrder ==
    \A n \in Names : IsPrefix(BackendsOf(n, hist.upsert_calls), hist.emitted[n])

\* Nothing is queued and no call of upsert_entry is due or running.
Drained ==
    /\ queue = << >>
    /\ main_pc \notin {"call_upsert", "upsert_entry"}

\* The entry of n's local_host is the address of the backend n put last.
EntryIsLastEmitted(n) ==
    /\ lb[n].local_host \in DOMAIN entries
    /\ entries[lb[n].local_host] = Resolve(hist.emitted[n][Len(hist.emitted[n])])

\* No other load balancer publishes under n's local_host.
OwnLocalHost(n) ==
    \A m \in Created \ {n} : lb[m].local_host # lb[n].local_host

\* C4, as stated: one upsert_entry call per dequeued pair, in dequeue order; the
\* calls of one service in the order of its puts; and once the queue is
\* drained the entry of the service's local_host is the address of the backend
\* its load balancer put last.
C4_Original ==
    /\ OneUpsertPerEvent
    /\ UpsertsInEmitOrder
    /\ Drained =>
         \A n \in Created : hist.emitted[n] # << >> => EntryIsLastEmitted(n)

\* C4, amended: the same, the last part for a service that shares its
\* local_host with no other service, once the queue is drained and no call of
\* upsert_entry has raised.
C4_OrderedUpserts ==
    /\ OneUpsertPerEvent
    /\ UpsertsInEmitOrder
    /\ (Drained /\ ~hist.hm_error) =>
         \A n \in Created :
            (hist.emitted[n] # << >> /\ OwnLocalHost(n)) => EntryIsLastEmitted(n)

\* Both pairs svc-a put were upserted, and the entry is the address of the second.
C4_Witness ==
    /\ Drained
    /\ ~hist.hm_error
    /\ hist.emitted["svc-a"] = << "b1", "b2" >>
    /\ BackendsOf("svc-a", hist.upsert_calls) = << "b1", "b2" >>
    /\ OwnLocalHost("svc-a")
    /\ entries["app.local"] = "10.0.0.2"

\* The main thread is inside run().
InRun ==
    main_pc \in { "start_lbs", "loop", "get", "call_upsert", "upsert_entry",
                  "stop_lbs", "join_lbs", "remove_redirector_block", "remove_pid" }

\* run() has ended, by returning or by an exception leaving _do_stop.
RunEnded == hist.run_returned \/ hist.run_raised

\* Every load balancer was told to stop.
AllSignalled == \A n \in Created : lb[n].stop_event

\* Every load balancer was joined, and its thread has ended.
AllJoined == \A n \in Created : n \in hist.joined /\ ThreadEnded(n)

\* The cleanup of _do_stop was done: the block removed unless it persists, the
\* PID file removed if there is one.
CleanedUp ==
    /\ hist.block_removed <=> ~core_config.persist_hosts_block
    /\ core_config.pid_file => pid_file = "removed"

\* _do_stop ran: all load balancers stopped and joined, then the cleanup done,
\* unless remove_redirector_block raised.
ShutdownExecuted ==
    /\ AllSignalled
    /\ AllJoined
    /\ RunEnded
    /\ hist.run_returned => CleanedUp

C6_ErrorExitsNonZero ==
    (hist.hm_error /\ main_pc = "exited") => exit_code # 0

\* C7: a load balancer is joined only after all were told to stop; the block is
\* removed only when no load balancer thread is alive and only if
\* persist_hosts_block is false, and it is removed whenever run() returns with
\* persist_hosts_block false; the PID file is removed only after that.
C7_ShutdownOrder ==
    /\ (main_pc = "join_lbs" \/ hist.joined # {}) => AllSignalled
    /\ (main_pc = "remove_redirector_block" \/ hist.block_removed)
          => /\ AllJoined
             /\ \A n \in Names : ~ThreadAlive(n)
             /\ ~core_config.persist_hosts_block
    /\ (main_pc = "remove_pid" \/ pid_file = "removed" \/ hist.run_returned)
          => /\ AllJoined
             /\ \A n \in Names : ~ThreadAlive(n)
             /\ hist.block_removed <=> ~core_config.persist_hosts_block

\* Two load balancers were stopped, the block and then the PID file removed.
C7_Witness ==
    /\ Len(load_balancers) = 2
    /\ hist.block_removed
    /\ hosts_file.markers = "none"
    /\ pid_file = "removed"
    /\ hist.run_returned

\* C8, as stated: once stop() was called with run() running, run() eventually
\* returns, and when it has returned no load balancer thread is alive.
C8_Original ==
    /\ [](hist.stop_called /\ InRun => <>hist.run_returned)
    /\ [](hist.run_returned => \A n \in Names : ~ThreadAlive(n))

\* C8, amended: once stop() was called with run() running, run() eventually
\* ends, by returning or by the HostsManagerError of remove_redirector_block,
\* and when it has ended every load balancer had left its loop and was joined:
\* no thread is alive.
C8_StopTerminates ==
    /\ [](hist.stop_called /\ InRun => <>RunEnded)
    /\ [](RunEnded => AllJoined /\ \A n \in Names : ~ThreadAlive(n))

\* stop() was called after a pair was put; every load balancer thread left its
\* loop and was joined, and run() returned.
C8_Witness ==
    /\ hist.stop_called
    /\ hist.run_returned
    /\ hist.joined = Created
    /\ \E n \in Created : hist.emitted[n] # << >>
    /\ \A n \in Names : ~ThreadAlive(n)

\* C9: a reload request never leaves a load balancer thread alive with the
\* main thread gone from the consumer loop.
C9_ReloadSafe ==
    hist.reload_called => ~(main_pc = "exited" /\ \E n \in Names : ThreadAlive(n))

\* Two documents bear one name.
DuplicateNames ==
    \E i, j \in 1 .. Len(lb_configs) : i < j /\ lb_configs[i].name = lb_configs[j].name

\* What a refused directory of documents rules out in every state.
NeverRuns ==
    /\ ~InRun
    /\ \A n \in Names : lb[n].state \in {"absent", "created"}
    /\ hist.dequeued = << >>
    /\ queue = << >>
    /\ main_pc = "exited" => exit_code = 1

\* C10: with two documents of one name, or with no document, initialise() does
\* not return: run() is never entered, no load balancer thread is started, no
\* pair is put or dequeued, and main() returns, with the status 1.
C10_RefusedConfiguration ==
    /\ []((DuplicateNames \/ lb_configs = << >>) => NeverRuns)
    /\ (DuplicateNames \/ lb_configs = << >>) ~> (main_pc = "exited" /\ exit_code = 1)

\* The second document of a name was met after a load balancer was built.
C10_Witness ==
    /\ DuplicateNames
    /\ \E n \in Names : lb[n].state = "created"
    /\ main_pc = "exited"
    /\ exit_code = 1

\* The hosts of a pool.
Members(hosts) == { hosts[i] : i \in 1 .. Len(hosts) }

\* C11: the k-th call of next_host on a sequential strategy, counted from 0,
\* returns position k mod len(pool) of the pool.
C11_SequentialRoundRobin ==
    strat.kind = "sequential" =>
        \A k \in 0 .. (Len(strat.returned) - 1) :
            /\ strat.picks[k + 1] = k % Len(strat.hosts)
            /\ strat.returned[k + 1] = strat.hosts[(k % Len(strat.hosts)) + 1]

\* A pool of three was gone through twice.
C11_Witness ==
    /\ strat.kind = "sequential"
    /\ strat.hosts = << "b3", "b1", "b2" >>
    /\ strat.returned = << "b3", "b1", "b2", "b3", "b1", "b2" >>

\* Two calls in a row never return the same host / the same position.
NoValueTwice == \A k \in 1 .. (Len(strat.returned) - 1) : strat.returned[k] # strat.returned[k + 1]
NoPositionTwice == \A k \in 1 .. (Len(strat.picks) - 1) : strat.picks[k] # strat.picks[k + 1]

\* Every call returned the only member of the pool.
OnlyMember == \A k \in 1 .. Len(strat.returned) : strat.returned[k] = strat.hosts[1]

\* No host is listed twice in the pool.
DistinctHosts ==
    \A i, j \in 1 .. Len(strat.hosts) : strat.hosts[i] = strat.hosts[j] => i = j

C13_PoolMembersOnly ==
    /\ (Len(strat.hosts) = 0 /\ strat.state # "none") =>
          strat.state = "error" /\ strat.returned = << >>
    /\ Len(strat.hosts) > 0 =>
          /\ strat.state \in {"none", "built"}
          /\ strat.state = "built" => strat.next_index \in 0 .. (Len(strat.hosts) - 1)
          /\ \A k \in 1 .. Len(strat.returned) : strat.returned[k] \in Members(strat.hosts)

\* A random strategy over a pool of two was called as often as allowed.
C13_Witness ==
    /\ strat.kind = "random"
    /\ strat.state = "built"
    /\ Len(strat.hosts) = 2
    /\ Len(strat.returned) = MaxCalls

\* C14: no exception leaves is_alive: whatever the network answers, the probe
\* returns, and a probe that did not succeed returns (False, reason).
C14_ProbeNeverRaises ==
    probe.state # "idle" =>
        /\ probe.state = "returned"
        /\ ~probe.alive => probe.reason # ""

\* C15: the HTTP probe returns alive exactly when expected_status, as the
\* pattern, is found in the status code of the response, and expected_response
\* is not set or, as the pattern, is found in the decoded body.
C15_ConfiguredIsPattern ==
    (probe.kind = "http" /\ probe.state = "returned") =>
        ( probe.alive <=>
            /\ probe.net.kind = "response"
            /\ ValidPattern(probe.expected_status)
            /\ ReSearch(probe.expected_status, probe.net.code)
            /\ \/ probe.expected_response = None
               \/ /\ ValidPattern(probe.expected_response)
                  /\ ReSearch(probe.expected_response, probe.net.body) )

\* How many lines of a file are the marker.
Count(lines, marker) == Cardinality({ i \in 1 .. Len(lines) : lines[i] = marker })

\* No block, or one block: one BEGIN, one END after it.
WellFormed(lines) ==
    \/ Count(lines, REDIRECTOR_BEGIN_MARKER) = 0 /\ Count(lines, REDIRECTOR_END_MARKER) = 0
    \/ /\ Count(lines, REDIRECTOR_BEGIN_MARKER) = 1
       /\ Count(lines, REDIRECTOR_END_MARKER) = 1
       /\ \E b, e \in 1 .. Len(lines) :
             /\ b < e
             /\ lines[b] = REDIRECTOR_BEGIN_MARKER
             /\ lines[e] = REDIRECTOR_END_MARKER

\* C16: from a file with no block or one well-formed block, whatever was
\* upserted and removed, the file holds no block or one well-formed block.
C16_BlockInvariant == WellFormed(hf.initial) => WellFormed(hf.file)

\* A file without a block got one by two upserts and lost it by a removal.
C16_Witness ==
    /\ Count(hf.initial, REDIRECTOR_BEGIN_MARKER) = 0
    /\ hf.initial # << >>
    /\ hf.ops = MaxOps
    /\ hf.op = "remove"
    /\ Len(hf.entries) = 2
    /\ hf.pc = "idle"
    /\ hf.file = hf.initial

\* The lines of a file outside its block, in order.
Foreign(lines) ==
    LET inside == { i \in 1 .. Len(lines) :
                      \E b, e \in 1 .. Len(lines) :
                         /\ lines[b] = REDIRECTOR_BEGIN_MARKER
                         /\ lines[e] = REDIRECTOR_END_MARKER
                         /\ b <= i /\ i <= e }
        kept == SelectSeq([i \in 1 .. Len(lines) |-> i], LAMBDA i : i \notin inside)
    IN  [k \in 1 .. Len(kept) |-> lines[kept[k]]]

\* This step, the target file is replaced.
Replaces == hf.pc = "replace" /\ hf'.pc = "idle"

\* C17: a rewrite leaves the lines outside the block as they were, in order;
\* when the file had no block, an upsert puts the new block after all its lines.
C17_ForeignLinesKept ==
    [][ Replaces =>
          /\ Foreign(hf'.file) = Foreign(hf.file)
          /\ (Count(hf.file, REDIRECTOR_BEGIN_MARKER) = 0 /\ hf.op = "upsert")
                => hf'.file = hf.file \o GenerateRedirectorBlockContent(hf.entries)
      ]_vars

\* A block between two foreign lines was rewritten with other entries.
C17_Witness ==
    /\ hf.initial = << Localhost >> \o OldBlock \o << Gateway >>
    /\ hf.op = "upsert"
    /\ hf.ops = 1
    /\ hf.pc = "idle"
    /\ hf.file # hf.initial
    /\ Foreign(hf.file) = << Localhost, Gateway >>

\* This step, the file is read: by load_persisted_entries or by a rewrite.
Loads == hf.pc = "idle" /\ hf'.pc # "read"
Reads == Loads \/ hf.pc = "read"

\* The read raised the error and nothing else changed.
RaisedOnly(message) ==
    /\ hf'.pc = "failed"
    /\ hf'.error = message
    /\ hf'.entries = hf.entries
    /\ hf'.file = hf.file

RewriteBegun ==
    hf.pc \in {"create", "write", "replace", "crashed"} \/ hf.ops > 0 \/ hf.error = "I/O error"

\* The rewrite was interrupted after the temporary file was created.
Interrupted == hf.pc = "crashed" \/ hf.error = "I/O error"

\* C19: while the temporary file is written, and after an interruption before
\* the replace, the target holds its old content; at every instant it holds
\* the old content or the new one.
C19_AtomicRewrite ==
    /\ RewriteBegun => (hf.file = hf.old \/ hf.file = hf.new)
    /\ (hf.pc \in {"create", "write", "replace"} \/ Interrupted) => hf.file = hf.old

\* The process died with the temporary file half written.
C19_Witness ==
    /\ hf.pc = "crashed"
    /\ hf.tmp_exists
    /\ Len(hf.tmp) > 0
    /\ Len(hf.tmp) < Len(hf.new)
    /\ hf.old # hf.new
    /\ hf.file = hf.old

\* The mapping rendered as a block and parsed back, as load_persisted_entries does.
RoundTrip(mapping) ==
    LET file == << Localhost >> \o GenerateRedirectorBlockContent(mapping) \o << Gateway >>
        r == ReadHostsFile(file)
    IN  IF r.error # "" THEN [error |-> r.error, entries |-> << >>]
        ELSE ParsedLines(SubSeq(file, r.begin + 1, r.end - 1), << >>)

\* C20: a mapping rendered as a block and parsed back is the same mapping,
\* whatever the order its entries were stored in and the lengths of the
\* addresses; and loading the file an upsert wrote gives the mapping it wrote.
C20_RoundTrip ==
    /\ [](RoundTrip(hf.entries).error = "" /\ AsMap(RoundTrip(hf.entries).entries) = AsMap(hf.entries))
    /\ [][ (Loads /\ hf.op = "upsert" /\ hf.ops > 0)
             => hf'.error = "" /\ AsMap(hf'.entries) = AsMap(hf.entries) ]_vars

\* Two entries stored against the order of the block, addresses of two lengths.
C20_Witness ==
    /\ hf.pc = "idle"
    /\ hf.ops = 2
    /\ hf.entries = << [host |-> "web.local", ip |-> "10.0.0.1"],
                       [host |-> "app.local", ip |-> "192.168.1.100"] >>
    /\ AsMap(RoundTrip(hf.entries).entries) = AsMap(hf.entries)
    /\ RoundTrip(hf.entries).entries # hf.entries

\* This step, upsert_entry returns, called with the arguments of the call
\* that returned just before it (the name resolved to the same address).
SecondUpsertReturns == Replaces /\ hf.op = "upsert" /\ hf.done.call = hf.call

\* C21: upsert_entry called a second time in a row with the same local_host,
\* its backend resolved to the same address, leaves the mapping and the whole
\* hosts file as the first call left them.
C21_UpsertIdempotent ==
    [][ SecondUpsertReturns =>
          /\ hf'.entries = hf.done.entries
          /\ hf'.file = hf.done.file
      ]_vars

\* Two entries stored; the call of the second was repeated and has returned.
C21_Witness ==
    /\ hf.pc = "idle"
    /\ hf.ops = 3
    /\ Len(hf.entries) = 2
    /\ hf.old = hf.new
    /\ hf.done.call = hf.call
    /\ hf.call.host = "web.local"
    /\ hf.initial = << Localhost >> \o OldBlock \o << Gateway >>

\* The hostnames of a list.
Listed(expected) == { expected[i] : i \in 1 .. Len(expected) }

\* This step, remove_unexpected_entries(expected_hostnames) returns.
RemoveUnexpectedReturns ==
    main_pc = "remove_unexpected_entries" /\ main_pc' = "start_lbs"

\* C22: remove_unexpected_entries(expected) leaves in the mapping the keys it
\* held that are in expected, each with the address it had, and no other key.
C22_RemoveUnexpected ==
    [][ RemoveUnexpectedReturns =>
          /\ DOMAIN entries' = DOMAIN entries \cap Listed(expected_hostnames)
          /\ \A h \in DOMAIN entries' : entries'[h] = entries[h]
      ]_vars

\* The block of an earlier run held app.local and old.local; only app.local is
\* expected, and it is kept with its address.
C22_Witness ==
    /\ main_pc = "start_lbs"
    /\ expected_hostnames = << "app.local" >>
    /\ hosts_file = FileWithBlock
    /\ DOMAIN entries = {"app.local"}
    /\ entries["app.local"] = "10.0.0.3"

\* The addresses the block of the hosts file holds.
BlockAddresses == { hosts_file.block[h] : h \in DOMAIN hosts_file.block }

\* The one pair of the load balancer was put, taken, and upsert_entry returned.
Consumed(n) ==
    /\ Len(hist.emitted[n]) = 1
    /\ Len(hist.upsert_calls) = 1
    /\ Drained
    /\ ~hist.hm_error
    /\ ~hist.block_removed

\* C23: with b1 failing every probe and b2 passing every probe, the load
\* balancer of the sequential service over b1, b2 never puts b1 and puts b2 at
\* most once; once the pair was consumed the block maps the local_host to the
\* address of b2 and holds no address of b1; and unless the daemon is told to
\* stop, b2 is put, and it is consumed unless upsert_entry raises.
C23_Failover ==
    /\ [](\A n \in Created :
             /\ hist.emitted[n] \in { << >>, << "b2" >> }
             /\ Consumed(n) =>
                   /\ hosts_file.markers = "both"
                   /\ lb[n].local_host \in DOMAIN hosts_file.block
                   /\ hosts_file.block[lb[n].local_host] = Resolve("b2")
                   /\ Resolve("b1") \notin BlockAddresses)
    /\ <>(hist.emitted["svc-a"] = << "b2" >> \/ hist.stop_called)
    /\ <>(Consumed("svc-a") \/ hist.stop_called \/ hist.hm_error)

\* b1 failed its probe, b2 passed its own, the pair was consumed, and the block
\* an earlier run left now maps app.local to the address of b2.
C23_Witness ==
    /\ Consumed("svc-a")
    /\ ~hist.stop_called
    /\ lb["svc-a"].backend_host = "b2"
    /\ DOMAIN hosts_file.block = {"app.local"}
    /\ hosts_file.block["app.local"] = "10.0.0.2"
    /\ main_pc = "get"

\* An exception other than HostsManagerError and queue.Empty was raised on the
\* main thread during initialise() or run(): the AttributeError of reload().
UnexpectedFailure == hist.reload_called

\* C24: when an unexpected exception raised during initialise() or run() has
\* reached main(), main() returns a non-zero status and no load balancer
\* thread that was started is still running.
C24_UnexpectedFailureStopsAll ==
    (main_pc = "exited" /\ UnexpectedFailure) =>
        /\ exit_code # 0
        /\ \A n \in Names : ~ThreadAlive(n)

\* This step, is_alive returned to load balancer n and the loop body ran.
ProbeStep(n) == lb[n].state = "probing" /\ lb'[n].state = "wait"

\* next_host() was called once on the strategy of n in this step.
OneNextHost(n) ==
    LET w == lb[n] IN
    /\ lb'[n].backend_host = w.backend_hosts[w.next_index + 1]
    /\ lb'[n].next_index \in 0 .. (Len(w.backend_hosts) - 1)
    /\ w.strategy = "sequential" =>
          lb'[n].next_index = (w.next_index + 1) % Len(w.backend_hosts)
    /\ (w.strategy = "random" /\ Len(w.backend_hosts) > 1) =>
          lb'[n].next_index # w.next_index

\* C25: when the probe of the current backend reports not alive, the load
\* balancer calls next_host() once and makes the result its current backend,
\* sets backend_changed, sets the timeout to 1 and puts nothing on the queue;
\* and a pair it puts names the backend it has just probed, found alive.
C25_FailureStep ==
    [][ \A n \in Names :
          /\ (ProbeStep(n) /\ ~lb'[n].backend_alive) =>
                /\ OneNextHost(n)
                /\ lb'[n].backend_changed
                /\ lb'[n].timeout = 1
                /\ queue' = queue
                /\ hist'.emitted[n] = hist.emitted[n]
          /\ Puts(n) =>
                /\ ProbeStep(n)
                /\ queue'[Len(queue')].backend_host = lb[n].backend_host
                /\ lb[n].backend_host \in health
      ]_vars

\* svc-a published b1, then a probe of b1 failed: b2 is selected, unpublished.
C25_Witness ==
    /\ lb["svc-a"].state = "wait"
    /\ ~lb["svc-a"].backend_alive
    /\ lb["svc-a"].backend_changed
    /\ lb["svc-a"].timeout = 1
    /\ lb["svc-a"].backend_host = "b2"
    /\ hist.emitted["svc-a"] = << "b1" >>

\* C26: when a probe reports alive while backend_changed is set, the load
\* balancer puts the one pair (local_host, current backend), resets
\* backend_changed, sets the timeout to the period and keeps its backend; and
\* as long as it has put nothing, backend_changed is set, so that the first
\* healthy probe puts a pair.
C26_SuccessStep ==
    /\ [][ \A n \in Names :
             (ProbeStep(n) /\ lb'[n].backend_alive /\ lb[n].backend_changed) =>
                /\ queue' = Append(queue, [local_host |-> lb[n].local_host,
                                           backend_host |-> lb[n].backend_host,
                                           src |-> n])
                /\ ~lb'[n].backend_changed
                /\ lb'[n].timeout = lb[n].healthcheck_period
                /\ lb'[n].backend_host = lb[n].backend_host
         ]_vars
    /\ [](\A n \in Names :
             (lb[n].state \in {"wait", "probing"} /\ hist.emitted[n] = << >>)
                => lb[n].backend_changed)

\* svc-a found b1 down, selected b2, found it alive and published it.
C26_Witness ==
    /\ lb["svc-a"].state = "wait"
    /\ lb["svc-a"].backend_alive
    /\ ~lb["svc-a"].backend_changed
    /\ lb["svc-a"].timeout = 5
    /\ lb["svc-a"].backend_host = "b2"
    /\ hist.emitted["svc-a"] = << "b2" >>
    /\ \E i \in 1 .. Len(queue) : queue[i].backend_host = "b2" /\ queue[i].src = "svc-a"

\* C27: once the stop event of a load balancer is set, a wait of its loop
\* starts no probe and is followed only by the end of run(); a probe under way
\* ends its iteration with at most one more pair put; and from some moment on
\* no load balancer whose stop event is set has its thread alive.
C27_CooperativeStop ==
    /\ [][ \A n \in Names : lb[n].stop_event =>
             /\ lb[n].state \in {"wait", "done"} =>
                   /\ lb'[n].state \in {lb[n].state, "done"}
                   /\ hist'.emitted[n] = hist.emitted[n]
             /\ lb[n].state = "probing" =>
                   /\ lb'[n].state \in {"probing", "wait", "crashed"}
                   /\ Len(hist'.emitted[n]) <= Len(hist.emitted[n]) + 1
         ]_vars
    /\ <>[](\A n \in Names : lb[n].stop_event => ~ThreadAlive(n))

\* The stop event of svc-a was set during a probe; the probe found b1 alive
\* and the pair was put, then the wait returned and run() ended.
C27_Witness ==
    /\ lb["svc-a"].state = "done"
    /\ lb["svc-a"].stop_event
    /\ lb["svc-a"].backend_alive
    /\ hist.emitted["svc-a"] = << "b1" >>
    /\ Len(queue) = 1
    /\ main_pc = "join_lbs"

\* Load balancer n is at the wait of its loop.
AtWait(n) == lb[n].state = "wait"

\* Load balancer n has not ended a probe yet.
BeforeFirstProbe(n) == hist.emitted[n] = << >> /\ ~hist.failed_since_emit[n]

\* C28, as stated: at every wait, backend_changed is clear if and only if the
\* timeout is the configured period; and when it is set the timeout is 0, only
\* before the first probe, or 1.
C28_Original ==
    \A n \in Names : AtWait(n) =>
       /\ ~lb[n].backend_changed <=> lb[n].timeout = lb[n].healthcheck_period
       /\ lb[n].backend_changed =>
             \/ lb[n].timeout = 0 /\ BeforeFirstProbe(n)
             \/ lb[n].timeout = 1

\* C28, amended: at every wait, when backend_changed is clear a pair was put
\* and the timeout is the configured period; when it is set the timeout is 0,
\* only before the first probe, or 1 after a failed probe; so for a period
\* other than 0 and 1 backend_changed is clear if and only if the timeout is
\* the period.
C28_TimeoutDirty ==
    \A n \in Names : AtWait(n) =>
       /\ ~lb[n].backend_changed =>
             /\ lb[n].timeout = lb[n].healthcheck_period
             /\ hist.emitted[n] # << >>
       /\ lb[n].backend_changed =>
             \/ lb[n].timeout = 0 /\ BeforeFirstProbe(n)
             \/ lb[n].timeout = 1 /\ hist.failed_since_emit[n]
       /\ lb[n].healthcheck_period \notin {0, 1} =>
             (~lb[n].backend_changed <=> lb[n].timeout = lb[n].healthcheck_period)

\* svc-b, of period 1, waits 1 second after a failed probe: its period, with
\* the backend it selected unpublished.
C28_Witness ==
    /\ AtWait("svc-b")
    /\ lb["svc-b"].backend_changed
    /\ lb["svc-b"].timeout = 1
    /\ lb["svc-b"].healthcheck_period = 1
    /\ hist.failed_since_emit["svc-b"]
    /\ hist.emitted["svc-b"] # << >>

\* Thread.start() was called on load balancer n.
Started(n) == lb[n].state \notin {"absent", "created"}

\* C29: a load balancer that was started and whose stop() was not called is
\* running: it has not left its loop, whatever its probes and the other load
\* balancers did.
C29_EndsOnlyOnStop ==
    \A n \in Names : (Started(n) /\ ~lb[n].stop_event) => ThreadAlive(n)

\* The block of the hosts file maps n's local_host to the address of the
\* backend n put last.
PersistedIsLastEmitted(n) ==
    /\ hosts_file.markers = "both"
    /\ lb[n].local_host \in DOMAIN hosts_file.block
    /\ hosts_file.block[lb[n].local_host] = Resolve(hist.emitted[n][Len(hist.emitted[n])])

\* This step, upsert_entry returns for a pair that load balancer m put.
UpsertsFor(m) == main_pc = "upsert_entry" /\ main_pc' = "loop" /\ event.src = m

\* C30, as stated: for a service no other service shares the local_host of,
\* once the queue is drained the persisted entry of its local_host is the
\* address of the backend its load balancer put last.
C30_Original ==
    \A n \in Created :
       (OwnLocalHost(n) /\ Drained /\ hist.emitted[n] # << >>)
          => PersistedIsLastEmitted(n)

\* C30, amended: for a service no other service shares the local_host of,
\* once the queue is drained, no upsert_entry call has raised and the block was
\* not removed at shutdown, the persisted entry of its local_host is the
\* address of the backend its load balancer put last; and the upsert of a pair
\* of another service leaves that entry as it was.
C30_Isolation ==
    /\ [](\A n \in Created :
             (OwnLocalHost(n) /\ Drained /\ hist.emitted[n] # << >>
                 /\ ~hist.hm_error /\ ~hist.block_removed)
                => PersistedIsLastEmitted(n))
    /\ [][ \A n, m \in Created :
             (OwnLocalHost(n) /\ m # n /\ UpsertsFor(m)
                 /\ lb[n].local_host \in DOMAIN hosts_file.block)
                => /\ lb[n].local_host \in DOMAIN hosts_file'.block
                   /\ hosts_file'.block[lb[n].local_host]
                         = hosts_file.block[lb[n].local_host]
         ]_vars

\* svc-d and svc-a have both published, under db.local and app.local; the
\* queue is drained and the block holds the backend of each.
C30_Witness ==
    /\ lb_configs = << SvcD, SvcA >>
    /\ Drained
    /\ ~hist.hm_error
    /\ Len(hist.upsert_calls) >= 3
    /\ hist.emitted["svc-a"] = << "b1", "b2" >>
    /\ hist.emitted["svc-d"] = << "b3" >>
    /\ hosts_file.block["app.local"] = "10.0.0.2"
    /\ hosts_file.block["db.local"] = "10.0.0.3"

\* How many pairs the load balancers have put.
PairsPut ==
    Len(hist.emitted["svc-a"]) + Len(hist.emitted["svc-b"])
       + Len(hist.emitted["svc-c"]) + Len(hist.emitted["svc-d"])

\* The consumer loop of run() has exited.
LoopExited ==
    main_pc \in {"stop_lbs", "join_lbs", "remove_redirector_block", "remove_pid", "exited"}

\* C31: when no stop is requested and no HostsManagerError occurs, every pair
\* put is in the end passed to upsert_entry (the health of the backends
\* changes finitely often, so the puts end); and once the consumer loop has
\* exited the pairs still queued stay queued: no upsert_entry call is made and
\* the block gets no entry.
C31_NoLostUpdates ==
    /\ <>[](\/ hist.stop_called
            \/ hist.hm_error
            \/ queue = << >> /\ Len(hist.upsert_calls) = PairsPut)
    /\ [][ LoopExited =>
             /\ hist'.upsert_calls = hist.upsert_calls
             /\ IsPrefix(queue, queue')
             /\ entries' = entries
             /\ hosts_file'.block \in {hosts_file.block, EmptyMap}
         ]_vars

\* Three pairs were put and each was passed to upsert_entry; nothing asked the
\* daemon to stop.
C31_Witness ==
    /\ PairsPut = 3
    /\ Len(hist.upsert_calls) = 3
    /\ queue = << >>
    /\ ~hist.stop_called
    /\ ~hist.hm_error
    /\ main_pc = "get"

\* Load balancer n is failing over: a probe failed and no pair was put since.
FailingOver(n) == hist.failed_since_emit[n] /\ ~lb[n].stop_event

\* C32: a sequential load balancer of which one backend stays healthy, once a
\* probe has failed and until it puts the pair of a healthy backend, keeps
\* probing at the 1-second timeout with backend_changed set: unless it is
\* stopped it has not left its loop, so that it reaches the healthy backend
\* within one round of the pool.
C32_BoundedFailover ==
    \A n \in Created :
       FailingOver(n) =>
          /\ ThreadAlive(n)
          /\ lb[n].backend_changed
          /\ lb[n].timeout = 1

\* The local_host of every configured service.
ConfiguredHosts == { lb_configs[i].local_host : i \in 1 .. Len(lb_configs) }

\* initialise() has returned.
Initialised == InRun \/ RunEnded

\* C33: once initialise() has returned, every key of the mapping is the
\* local_host of a configured service, and so is every hostname of the block a
\* rewrite leaves.
C33_OnlyConfiguredHosts ==
    /\ [](Initialised => DOMAIN entries \subseteq ConfiguredHosts)
    /\ [][ hosts_file' # hosts_file =>
              DOMAIN hosts_file'.block \subseteq ConfiguredHosts ]_vars

\* The block of an earlier run held app.local and old.local; svc-d and svc-a
\* are configured, svc-d has published: old.local is gone from the block,
\* app.local is kept and db.local was added.
C33_Witness ==
    /\ lb_configs = << SvcD, SvcA >>
    /\ hist.emitted["svc-a"] = << >>
    /\ hosts_file.markers = "both"
    /\ DOMAIN hosts_file.block = {"app.local", "db.local"}
    /\ hosts_file.block["app.local"] = "10.0.0.3"
    /\ DOMAIN entries = {"app.local", "db.local"}

====
